---- MODULE Spec2Model ----
(***************************************************************************)
(* Model of src/app.py: the SQL safety validator (is_safe_select), the      *)
(* code-fence clean-up applied before it, and the three request handlers   *)
(* /api/schema, /api/execute and /api/generate with their calls to the      *)
(* database and to the model provider.                                      *)
(*                                                                         *)
(* A text is a sequence of lexical units.  The units are written as the     *)
(* characters they stand for, so that the concatenation of a sequence is   *)
(* the Python string the code receives.                                     *)
(***************************************************************************)
EXTENDS Integers, Sequences, FiniteSets, TLC

\* ------------------------------------------------------------------ bounds
\* Longest text given to the validator on its own (specification SpecV).
MaxTextLen == 4
\* Longest query text / model completion in a request (specification Spec).
MaxQueryLen == 3
\* The same when two requests are handled at a time (specification SpecC).
MaxOverlapLen == 0
\* Largest number of rows a statement returns.
MaxRows == 2

\* ------------------------------------------------------------------- texts
\* A fence is three back quotes; the opening fence is followed by the word sql.
\* (A TLA+ string cannot hold a back quote, so the two units are named.)
FenceOpen  == "<fence>sql"
FenceClose == "<fence>"
Space      == " "
Newline    == "\n"
Semicolon  == ";"

Words      == {"SELECT", "DELETE", "x"}
Whitespace == {Space, Newline}
Fences     == {FenceOpen, FenceClose}
Tokens     == Words \cup Whitespace \cup Fences \cup {Semicolon}

RECURSIVE TextsUpTo(_)
TextsUpTo(n) ==
    IF n = 0 THEN {<<>>}
    ELSE LET shorter == TextsUpTo(n - 1)
         IN  shorter \cup {Append(s, t) : s \in {u \in shorter : Len(u) = n - 1}, t \in Tokens}

\* str.strip(): leading and trailing whitespace removed.
RECURSIVE lstrip(_)
lstrip(s) ==
    IF s # <<>> /\ Head(s) \in Whitespace THEN lstrip(Tail(s)) ELSE s

RECURSIVE rstrip(_)
rstrip(s) ==
    IF s # <<>> /\ s[Len(s)] \in Whitespace
    THEN rstrip(SubSeq(s, 1, Len(s) - 1))
    ELSE s

strip(s) == rstrip(lstrip(s))

\* First index >= i of s that holds no whitespace (Len(s) + 1 if none): what \s* consumes.
RECURSIVE SkipWs(_, _)
SkipWs(s, i) ==
    IF i <= Len(s) /\ s[i] \in Whitespace THEN SkipWs(s, i + 1) ELSE i

\* ^ and $ under re.MULTILINE, on positions of the original string.
AtLineStart(s, i) == i = 1 \/ s[i - 1] = Newline
AtLineEnd(s, i)   == i = Len(s) \/ s[i + 1] = Newline

\* re.sub(r"^<fence>sql\s*|\s*<fence>$", "", s, flags=re.MULTILINE): scanning from the
\* left, every non-overlapping match of either alternative is removed.
RECURSIVE SubFrom(_, _)
SubFrom(s, i) ==
    IF i > Len(s) THEN <<>>
    ELSE IF AtLineStart(s, i) /\ s[i] = FenceOpen
         THEN SubFrom(s, SkipWs(s, i + 1))
         ELSE LET j == SkipWs(s, i)
              IN  IF j <= Len(s) /\ s[j] = FenceClose /\ AtLineEnd(s, j)
                  THEN SubFrom(s, j + 1)
                  ELSE <<s[i]>> \o SubFrom(s, i + 1)

strip_fences(s) == SubFrom(s, 1)

\* --------------------------------------------------------------- sqlparse
\* The lexer.  Adjacent word units are one word ("SELECT" followed by "x" is
\* the name SELECTx); a word is a DML keyword only when it stands alone.  A
\* back-quoted name runs from one fence to the next one (each fence holds an
\* odd number of back quotes), whatever lies between; a fence with no later
\* fence is not a keyword either.
RECURSIVE WordEnd(_, _)
WordEnd(s, i) ==
    IF i < Len(s) /\ s[i + 1] \in Words THEN WordEnd(s, i + 1) ELSE i

RECURSIVE NextFence(_, _)
NextFence(s, i) ==
    IF i > Len(s) THEN 0
    ELSE IF s[i] \in Fences THEN i ELSE NextFence(s, i + 1)

RECURSIVE LexFrom(_, _)
LexFrom(s, i) ==
    IF i > Len(s) THEN <<>>
    ELSE IF s[i] \in Fences
         THEN LET j == NextFence(s, i + 1)
              IN  <<"Name">> \o LexFrom(s, IF j = 0 THEN i + 1 ELSE j + 1)
    ELSE IF s[i] \in Words
         THEN LET k == WordEnd(s, i)
              IN  <<IF k = i /\ s[i] # "x" THEN s[i] ELSE "Name">> \o LexFrom(s, k + 1)
    ELSE <<s[i]>> \o LexFrom(s, i + 1)

Lex(s) == LexFrom(s, 1)

AllWhitespace(toks) == \A i \in 1..Len(toks) : toks[i] \in Whitespace

\* sqlparse's statement splitter: a statement ends at a semicolon; the spaces
\* after it still belong to it, and the next unit that is not a space (a
\* newline included) starts the next statement.  What is pending at the end is
\* a statement unless it is all whitespace.
RECURSIVE SplitFrom(_, _, _, _)
SplitFrom(toks, i, cur, consume_ws) ==
    IF i > Len(toks)
    THEN IF cur # <<>> /\ ~AllWhitespace(cur) THEN <<cur>> ELSE <<>>
    ELSE IF consume_ws /\ toks[i] # Space
         THEN <<cur>> \o SplitFrom(toks, i + 1, <<toks[i]>>, toks[i] = Semicolon)
         ELSE SplitFrom(toks, i + 1, Append(cur, toks[i]),
                        consume_ws \/ toks[i] = Semicolon)

\* sqlparse.parse(sql): the statements of the text.
parse(sql) == SplitFrom(Lex(sql), 1, <<>>, FALSE)

\* Statement.get_type(): the first unit that is not whitespace, if it is a
\* DML keyword, and UNKNOWN otherwise.
get_type(stmt) ==
    LET i == SkipWs(stmt, 1)
    IN  IF i <= Len(stmt) /\ stmt[i] \in {"SELECT", "DELETE"} THEN stmt[i] ELSE "UNKNOWN"

\* A plausible slip: only the first statement is looked at.
is_safe_first_only(parsed) ==
    parsed = <<>> \/ get_type(Head(parsed)) = "SELECT"

\* The loop of is_safe_select over the parsed statements.
RECURSIVE all_select(_)
all_select(parsed) ==
    IF parsed = <<>> THEN TRUE
    ELSE IF get_type(Head(parsed)) # "SELECT" THEN FALSE
    ELSE all_select(Tail(parsed))

is_safe_select(sql) == all_select(parse(sql))


\* ------------------------------------------------------- requests, values
DbTypes     == {"postgresql", "mysql", "oracle"}
AiProviders == {"openai", "gemini"}
ApiKeys     == {"key-a", "key-b"}
Endpoints   == {"/api/schema", "/api/execute", "/api/generate"}

\* The handlers the server runs at a time: each has its own request object,
\* locals, connection and outcome.
Slots == {"h1", "h2"}

\* What a client sends in the query field on /api/generate: a question in
\* natural language.  (On /api/execute it is SQL text, any text.)
Questions == {<<"x">>, <<"x", " ", "x">>}

NoRequest ==
    [endpoint |-> "", aiProvider |-> "", apiKey |-> "", dbType |-> "", query |-> <<>>]

\* The i-th row a statement returns.
Row(i) ==
    [table_name |-> IF i % 2 = 1 THEN "t1" ELSE "t2", column_name |-> i, data_type |-> "int"]

\* The result sets the database can return.
ResultSets == {[i \in 1..n |-> Row(i)] : n \in 0..MaxRows}

NoSummary      == [fmt |-> "", n |-> 0]
NoResultsFound == [fmt |-> "No results found.", n |-> 0]
FoundResults(n) == [fmt |-> "Found {n} results.", n |-> n]
ModelSummary   == [fmt |-> "{model completion}", n |-> 0]

Response(status, detail, q, rows, summ, sch) ==
    [status |-> status, detail |-> detail, query |-> q, results |-> rows,
     summary |-> summ, schema |-> sch]

NoResponse == Response(0, "", <<>>, <<>>, NoSummary, <<>>)

\* An exception in flight: its class, the status it carries when it is an
\* HTTPException, and the failure its message reports.  str(e) of a wrapped
\* exception keeps the message of the one it wraps.
Exc(kind, status, detail) == [kind |-> kind, status |-> status, detail |-> detail]
HTTPException(status, detail) == Exc("HTTPException", status, detail)

\* An I/O event of a request: a call to the model provider ("model_call", to
\* generate or to summarise, with the key it was made with and the question of
\* its prompt) or to the database ("connect", "execute" with the text handed
\* over, "fetch" with the number of rows read), and whether the call succeeded.
Event(op, purpose, key, txt, count, ok) ==
    [op |-> op, purpose |-> purpose, key |-> key, text |-> txt, count |-> count, ok |-> ok]

\* ------------------------------------------------------------------- state
VARIABLES
    openai_api_key,  \* the module-level openai.api_key, one for the process
    running,         \* the handler the event loop is running, "none" between handlers
    pc,              \* per handler: where it stands ("idle": it handles no request)
    sent,            \* per handler: the request as the client sent it
    request,         \* per handler: the request object (generate_query assigns its query)
    query,           \* per handler: execute_query's local, the cleaned text
    sql_query,       \* per handler: generate_query's local, the generated statement
    engine,          \* per handler: whether create_engine has been called
    conn,            \* per handler: its connection, "none", "open" or "closed"
    cursor,          \* per handler: the rows the database holds ready to be read
    results,         \* per handler: the materialised rows
    resp,            \* per handler: the outcome of the request
    validated,       \* per handler: the texts is_safe_select accepted in this request
    rejected,        \* per handler: whether is_safe_select returned False in this request
    io,              \* per handler: the I/O events of this request, in order
    slots,           \* the handlers the server uses in this run
    max_len,         \* the longest text of this run
    vtext,           \* the validator on its own: the text
    verdicts         \* the validator on its own: the verdicts returned so far

vars == <<openai_api_key, running, pc, sent, request, query, sql_query, engine, conn, cursor,
          results, resp, validated, rejected, io, slots, max_len, vtext, verdicts>>

\* The texts of this run: SQL sent to /api/execute, completions of the model.
Queries == TextsUpTo(max_len)

\* -------------------------------------------------------- dialect resolver
\* get_db_url: the driver scheme of the connection string, or ValueError.
get_db_url(config) ==
    IF config.dbType = "postgresql" THEN "postgresql+psycopg2"
    ELSE IF config.dbType = "mysql" THEN "mysql+pymysql"
    ELSE "ValueError"

\* get_schema_query: the catalog query; anything but postgresql gets the mysql one.
get_schema_query(config) ==
    IF config.dbType = "postgresql"
    THEN <<"SELECT", "information_schema.columns", "public">>
    ELSE <<"SELECT", "information_schema.columns", "{dbName}">>

\* ------------------------------------------------------ exception handlers
\* fetch_schema's except clause.
fetch_schema_except(e) == HTTPException(500, e.detail)

\* execute_query's except clauses: SQLAlchemyError first, then Exception,
\* which is also the class of the HTTPException raised in the try block.
execute_query_except(e) ==
    IF e.kind = "SQLAlchemyError"
    THEN HTTPException(400, e.detail)
    ELSE HTTPException(500, e.detail)

\* generate_sql_with_ai's except clause.
generate_sql_with_ai_except(e) == HTTPException(500, e.detail)

\* generate_query's except clause.
generate_query_except(e) == HTTPException(500, e.detail)

\* What an exception leaving execute_query becomes for the client: on
\* /api/generate it passes through generate_query's handler as well.
execute_query_raise(req, e) ==
    IF req.endpoint = "/api/generate"
    THEN generate_query_except(execute_query_except(e))
    ELSE execute_query_except(e)

ErrorResponse(e) == Response(e.status, e.detail, <<>>, <<>>, NoSummary, <<>>)

\* ------------------------------------------------------------ the handlers
\* The server holds several requests at a time, each with a handler of its
\* own, and runs the handlers on one event loop.  The handlers are coroutines
\* that await nothing but each other and call the database and the provider
\* with blocking calls: once the loop runs a handler, it runs it from its
\* first line to its outcome, and the other requests wait.  All a handler
\* touches is its own, but for openai.api_key.

\* Handler h assigns v to its f.
Set(f, h, v) == [f EXCEPT ![h] = v]
Log(h, e)    == io' = [io EXCEPT ![h] = Append(io[h], e)]
\* Handler h is at l and the event loop runs it, or is free to.
Runs(h, l)   == pc[h] = l /\ running \in {"none", h}
\* Handler h goes on to l: the loop stays with it.
Goto(h, l)   == pc' = Set(pc, h, l) /\ running' = h
\* Handler h returns or raises r: the loop is free again.
Finish(h, r) == resp' = Set(resp, h, r) /\ pc' = Set(pc, h, "done") /\ running' = "none"

\* A plausible slip: the connection is closed by hand on the return path only,
\* so that an exit by exception leaves it open.
connection_exit_leak(by_exception) == IF by_exception THEN "open" ELSE "closed"

\* Leaving the block "with engine.connect() as connection", by return or by
\* exception: the connection is closed.
connection_exit(by_exception) == "closed"

\* A request is received and parsed, and its handler is ready to run.
Arrive(h) ==
    /\ h \in slots
    /\ pc[h] = "idle"
    /\ running = "none"
    /\ \E ep \in Endpoints, prov \in AiProviders, key \in ApiKeys, db \in DbTypes :
         \E q \in (IF ep = "/api/execute" THEN Queries
                   ELSE IF ep = "/api/generate" THEN Questions ELSE {<<>>}) :
            /\ request' = Set(request, h, [endpoint |-> ep, aiProvider |-> prov,
                                           apiKey |-> key, dbType |-> db, query |-> q])
            /\ sent' = Set(sent, h, request'[h])
            /\ pc' = Set(pc, h, IF ep = "/api/schema" THEN "schema_engine"
                                 ELSE IF ep = "/api/execute" THEN "exec_validate"
                                 ELSE "gen_sql")
    /\ UNCHANGED <<openai_api_key, running, query, sql_query, engine, conn, cursor, results, resp,
                   validated, rejected, io, slots, max_len, vtext, verdicts>>

\* The outcome is sent to the client and the objects of the request are dropped;
\* the module-level openai.api_key stays as the requests left it.
Respond(h) ==
    /\ pc[h] = "done"
    /\ running = "none"
    /\ pc' = Set(pc, h, "idle")
    /\ sent' = Set(sent, h, NoRequest) /\ request' = Set(request, h, NoRequest)
    /\ query' = Set(query, h, <<>>) /\ sql_query' = Set(sql_query, h, <<>>)
    /\ engine' = Set(engine, h, FALSE) /\ conn' = Set(conn, h, "none")
    /\ cursor' = Set(cursor, h, <<>>) /\ results' = Set(results, h, <<>>)
    /\ resp' = Set(resp, h, NoResponse)
    /\ validated' = Set(validated, h, {}) /\ rejected' = Set(rejected, h, FALSE)
    /\ io' = Set(io, h, <<>>)
    /\ UNCHANGED <<openai_api_key, running, slots, max_len, vtext, verdicts>>

\* ---- /api/schema (fetch_schema)
\* get_db_url, create_engine, get_schema_query.
SchemaEngine(h) ==
    /\ Runs(h, "schema_engine")
    /\ IF get_db_url(request[h]) # "ValueError"
       THEN /\ engine' = Set(engine, h, TRUE)
            /\ query' = Set(query, h, get_schema_query(request[h]))
            /\ Goto(h, "schema_connect")
            /\ UNCHANGED resp
       ELSE /\ Finish(h, ErrorResponse(fetch_schema_except(
                          Exc("ValueError", 0, "unsupported_dialect"))))
            /\ UNCHANGED <<engine, query>>
    /\ UNCHANGED <<openai_api_key, sent, request, sql_query, conn, cursor, results,
                   validated, rejected, io, slots, max_len, vtext, verdicts>>

\* engine.connect(): the connection opens, or the database refuses it.
SchemaConnect(h) ==
    /\ Runs(h, "schema_connect")
    /\ \/ /\ conn' = Set(conn, h, "open") /\ Goto(h, "schema_run") /\ UNCHANGED resp
          /\ Log(h, Event("connect", "", "", <<>>, 0, TRUE))
       \/ /\ Finish(h, ErrorResponse(fetch_schema_except(Exc("SQLAlchemyError", 0, "db_connect"))))
          /\ Log(h, Event("connect", "", "", <<>>, 0, FALSE))
          /\ UNCHANGED conn
    /\ UNCHANGED <<openai_api_key, sent, request, query, sql_query, engine, cursor, results,
                   validated, rejected, slots, max_len, vtext, verdicts>>

\* connection.execute(text(schema_query)).
SchemaRun(h) ==
    /\ Runs(h, "schema_run")
    /\ \/ \E rows \in ResultSets :
            /\ cursor' = Set(cursor, h, rows) /\ Goto(h, "schema_read")
            /\ UNCHANGED <<resp, conn>>
            /\ Log(h, Event("execute", "", "", query[h], 0, TRUE))
       \/ /\ conn' = Set(conn, h, connection_exit(TRUE))
          /\ Log(h, Event("execute", "", "", query[h], 0, FALSE))
          /\ Finish(h, ErrorResponse(fetch_schema_except(Exc("SQLAlchemyError", 0, "db_execute"))))
          /\ UNCHANGED cursor
    /\ UNCHANGED <<openai_api_key, sent, request, query, sql_query, engine, results,
                   validated, rejected, slots, max_len, vtext, verdicts>>

\* The columns of one table, in row order: "column (type)".
RECURSIVE columns_of(_, _)
columns_of(rows, table) ==
    IF rows = <<>> THEN <<>>
    ELSE (IF Head(rows).table_name = table
          THEN <<<<Head(rows).column_name, Head(rows).data_type>>>> ELSE <<>>)
         \o columns_of(Tail(rows), table)

\* The tables in the order they are first seen.
RECURSIVE tables_of(_, _)
tables_of(rows, seen) ==
    IF rows = <<>> THEN <<>>
    ELSE IF Head(rows).table_name \in seen THEN tables_of(Tail(rows), seen)
    ELSE <<Head(rows).table_name>> \o tables_of(Tail(rows), seen \cup {Head(rows).table_name})

\* The formatted schema: one block per table.
format_schema(rows) ==
    LET tables == tables_of(rows, {})
    IN  [i \in 1..Len(tables) |->
            [table |-> tables[i], columns |-> columns_of(rows, tables[i])]]

\* The loop over the rows, the formatting and the return; reading a row may fail.
SchemaRead(h) ==
    /\ Runs(h, "schema_read")
    /\ \/ /\ Finish(h, Response(200, "", <<>>, <<>>, NoSummary, format_schema(cursor[h])))
          /\ conn' = Set(conn, h, connection_exit(FALSE))
          /\ Log(h, Event("fetch", "", "", <<>>, Len(cursor[h]), TRUE))
       \/ /\ Finish(h, ErrorResponse(fetch_schema_except(Exc("SQLAlchemyError", 0, "db_read"))))
          /\ conn' = Set(conn, h, connection_exit(TRUE))
          /\ Log(h, Event("fetch", "", "", <<>>, 0, FALSE))
    /\ UNCHANGED <<openai_api_key, sent, request, query, sql_query, engine, cursor, results,
                   validated, rejected, slots, max_len, vtext, verdicts>>

\* ---- /api/execute (execute_query), also called by generate_query
\* strip, the fence clean-up and the validation.
ExecValidate(h) ==
    /\ Runs(h, "exec_validate")
    /\ query' = Set(query, h, strip_fences(strip(request[h].query)))
    /\ IF is_safe_select(query'[h])
       THEN /\ validated' = Set(validated, h, validated[h] \cup {query'[h]})
            /\ Goto(h, "exec_engine")
            /\ UNCHANGED <<resp, rejected>>
       ELSE /\ rejected' = Set(rejected, h, TRUE)
            /\ Finish(h, ErrorResponse(execute_query_raise(request[h],
                                           HTTPException(400, "unsafe_query"))))
            /\ UNCHANGED validated
    /\ UNCHANGED <<openai_api_key, sent, request, sql_query, engine, conn, cursor, results,
                   io, slots, max_len, vtext, verdicts>>

\* get_db_url and create_engine.
ExecEngine(h) ==
    /\ Runs(h, "exec_engine")
    /\ IF get_db_url(request[h]) # "ValueError"
       THEN /\ engine' = Set(engine, h, TRUE) /\ Goto(h, "exec_connect") /\ UNCHANGED resp
       ELSE /\ Finish(h, ErrorResponse(execute_query_raise(request[h],
                                           Exc("ValueError", 0, "unsupported_dialect"))))
            /\ UNCHANGED engine
    /\ UNCHANGED <<openai_api_key, sent, request, query, sql_query, conn, cursor, results,
                   validated, rejected, io, slots, max_len, vtext, verdicts>>

\* engine.connect().
ExecConnect(h) ==
    /\ Runs(h, "exec_connect")
    /\ \/ /\ conn' = Set(conn, h, "open") /\ Goto(h, "exec_run") /\ UNCHANGED resp
          /\ Log(h, Event("connect", "", "", <<>>, 0, TRUE))
       \/ /\ Finish(h, ErrorResponse(execute_query_raise(request[h],
                                         Exc("SQLAlchemyError", 0, "db_connect"))))
          /\ Log(h, Event("connect", "", "", <<>>, 0, FALSE))
          /\ UNCHANGED conn
    /\ UNCHANGED <<openai_api_key, sent, request, query, sql_query, engine, cursor, results,
                   validated, rejected, slots, max_len, vtext, verdicts>>

\* A plausible slip: the text of the request is executed, not the cleaned one.
executed_text_raw(h) == request[h].query

\* The text handler h hands to connection.execute.
executed_text(h) == query[h]

\* connection.execute(text(query)): the database runs it or rejects it.
ExecRun(h) ==
    /\ Runs(h, "exec_run")
    /\ \/ \E rows \in ResultSets :
            /\ cursor' = Set(cursor, h, rows) /\ Goto(h, "exec_fetch")
            /\ UNCHANGED <<resp, conn>>
            /\ Log(h, Event("execute", "", "", executed_text(h), 0, TRUE))
       \/ /\ conn' = Set(conn, h, connection_exit(TRUE))
          /\ Log(h, Event("execute", "", "", executed_text(h), 0, FALSE))
          /\ Finish(h, ErrorResponse(execute_query_raise(request[h],
                                         Exc("SQLAlchemyError", 0, "db_execute"))))
          /\ UNCHANGED cursor
    /\ UNCHANGED <<openai_api_key, sent, request, query, sql_query, engine, results,
                   validated, rejected, slots, max_len, vtext, verdicts>>

\* result.keys(), fetchall() and the return; reading the rows may fail, with
\* a database error or with any other exception.
ExecFetch(h) ==
    /\ Runs(h, "exec_fetch")
    /\ \/ /\ results' = Set(results, h, cursor[h])
          /\ conn' = Set(conn, h, connection_exit(FALSE))
          /\ Log(h, Event("fetch", "", "", <<>>, Len(cursor[h]), TRUE))
          /\ IF request[h].endpoint = "/api/generate"
             THEN Goto(h, "gen_summary") /\ UNCHANGED resp
             ELSE Finish(h, Response(200, "", query[h], results'[h], NoSummary, <<>>))
       \/ /\ \E kind \in {"SQLAlchemyError", "Exception"} :
               Finish(h, ErrorResponse(execute_query_raise(request[h],
                   Exc(kind, 0, IF kind = "SQLAlchemyError" THEN "db_read" ELSE "unexpected"))))
          /\ conn' = Set(conn, h, connection_exit(TRUE))
          /\ Log(h, Event("fetch", "", "", <<>>, 0, FALSE))
          /\ UNCHANGED results
    /\ UNCHANGED <<openai_api_key, sent, request, query, sql_query, engine, cursor,
                   validated, rejected, slots, max_len, vtext, verdicts>>

\* ---- /api/generate (generate_query)
\* "openai.api_key = request.apiKey" on the openai branch; the other branch
\* leaves the module-level key alone.
set_api_key(req, current) ==
    IF req.aiProvider = "openai" THEN req.apiKey ELSE current

\* The key a provider call is made with: the module-level client reads
\* openai.api_key when it sends the call, genai.Client gets the request's key.
call_key(req, current) ==
    IF req.aiProvider = "openai" THEN current ELSE req.apiKey

\* generate_sql_with_ai up to the provider call: the prompt, the branch on
\* aiProvider and the assignment to openai.api_key.
GenerateSqlKey(h) ==
    /\ Runs(h, "gen_sql")
    /\ openai_api_key' = set_api_key(request[h], openai_api_key)
    /\ Goto(h, "gen_sql_call")
    /\ UNCHANGED <<sent, request, query, sql_query, engine, conn, cursor, results, resp,
                   validated, rejected, io, slots, max_len, vtext, verdicts>>

\* The rest of generate_sql_with_ai, and the assignment of its result to
\* request.query: the provider call, the clean-up and the validation.
GenerateSql(h) ==
    /\ Runs(h, "gen_sql_call")
    /\ \/ /\ Finish(h, ErrorResponse(generate_query_except(
                 generate_sql_with_ai_except(Exc("Exception", 0, "model_call")))))
          /\ Log(h, Event("model_call", "generate",
                          call_key(request[h], openai_api_key), request[h].query, 0, FALSE))
          /\ UNCHANGED <<request, sql_query, validated, rejected>>
       \/ \E completion \in Queries :
            LET sql == strip_fences(strip(completion))
            IN  /\ Log(h, Event("model_call", "generate",
                                call_key(request[h], openai_api_key), request[h].query, 0, TRUE))
                /\ IF is_safe_select(sql)
                   THEN /\ validated' = Set(validated, h, validated[h] \cup {sql})
                        /\ sql_query' = Set(sql_query, h, sql)
                        /\ request' = Set(request, h, [request[h] EXCEPT !.query = sql])
                        /\ Goto(h, "exec_validate")
                        /\ UNCHANGED <<resp, rejected>>
                   ELSE /\ rejected' = Set(rejected, h, TRUE)
                        /\ Finish(h, ErrorResponse(generate_query_except(
                               generate_sql_with_ai_except(Exc("ValueError", 0, "unsafe_generated")))))
                        /\ UNCHANGED <<request, sql_query, validated>>
    /\ UNCHANGED <<openai_api_key, sent, query, engine, conn, cursor, results,
                   slots, max_len, vtext, verdicts>>

\* A plausible slip: the check for an empty result is left out.
no_results_never(rows) == FALSE

\* "if not results" at the head of generate_summary.
no_results(rows) == rows = <<>>

\* generate_summary up to the provider call: the check for an empty result
\* (and then the return of generate_query), the prompt, the branch on
\* aiProvider and the assignment to openai.api_key.
GenerateSummaryKey(h) ==
    /\ Runs(h, "gen_summary")
    /\ IF no_results(results[h])
       THEN /\ Finish(h, Response(200, "", sql_query[h], results[h], NoResultsFound, <<>>))
            /\ UNCHANGED openai_api_key
       ELSE /\ openai_api_key' = set_api_key(request[h], openai_api_key)
            /\ Goto(h, "gen_summary_call")
            /\ UNCHANGED resp
    /\ UNCHANGED <<sent, request, query, sql_query, engine, conn, cursor, results,
                   validated, rejected, io, slots, max_len, vtext, verdicts>>

\* A plausible slip: the failure of the summary call is left to generate_query's handler.
summary_raises(sql, rows) ==
    ErrorResponse(generate_query_except(Exc("Exception", 0, "model_call")))

\* The outcome when the summary call raises: the bare except of
\* generate_summary returns the row-count message and generate_query returns.
summary_failed(sql, rows) ==
    Response(200, "", sql, rows, FoundResults(Len(rows)), <<>>)

\* The rest of generate_summary and the return of generate_query: the
\* provider call, its completion or the message of the except clause.
GenerateSummary(h) ==
    /\ Runs(h, "gen_summary_call")
    /\ \/ /\ Finish(h, Response(200, "", sql_query[h], results[h], ModelSummary, <<>>))
          /\ Log(h, Event("model_call", "summary", call_key(request[h], openai_api_key),
                          request[h].query, Len(results[h]), TRUE))
       \/ /\ Finish(h, summary_failed(sql_query[h], results[h]))
          /\ Log(h, Event("model_call", "summary", call_key(request[h], openai_api_key),
                          request[h].query, Len(results[h]), FALSE))
    /\ UNCHANGED <<openai_api_key, sent, request, query, sql_query, engine, conn, cursor,
                   results, validated, rejected, slots, max_len, vtext, verdicts>>

\* ---------------------------------------------------------- specifications
\* No request is being handled and openai.api_key has not been assigned.
Idle ==
    /\ openai_api_key = "unset"
    /\ running = "none"
    /\ pc = [h \in Slots |-> "idle"]
    /\ sent = [h \in Slots |-> NoRequest] /\ request = [h \in Slots |-> NoRequest]
    /\ query = [h \in Slots |-> <<>>] /\ sql_query = [h \in Slots |-> <<>>]
    /\ engine = [h \in Slots |-> FALSE] /\ conn = [h \in Slots |-> "none"]
    /\ cursor = [h \in Slots |-> <<>>] /\ results = [h \in Slots |-> <<>>]
    /\ resp = [h \in Slots |-> NoResponse]
    /\ validated = [h \in Slots |-> {}] /\ rejected = [h \in Slots |-> FALSE]
    /\ io = [h \in Slots |-> <<>>]

Next ==
    \E h \in Slots :
        \/ Arrive(h) \/ Respond(h)
        \/ SchemaEngine(h) \/ SchemaConnect(h) \/ SchemaRun(h) \/ SchemaRead(h)
        \/ ExecValidate(h) \/ ExecEngine(h) \/ ExecConnect(h) \/ ExecRun(h) \/ ExecFetch(h)
        \/ GenerateSqlKey(h) \/ GenerateSql(h) \/ GenerateSummaryKey(h) \/ GenerateSummary(h)

\* One request at a time: texts of up to MaxQueryLen units.
Init ==
    /\ Idle
    /\ slots = {"h1"} /\ max_len = MaxQueryLen
    /\ vtext = <<>> /\ verdicts = <<>>

Spec == Init /\ [][Next]_vars

\* Two requests at a time, both received before either handler runs or one
\* received while the other waits for its outcome to be sent: texts of up
\* to MaxOverlapLen units.
InitC ==
    /\ Idle
    /\ slots = Slots /\ max_len = MaxOverlapLen
    /\ vtext = <<>> /\ verdicts = <<>>

SpecC == InitC /\ [][Next]_vars

\* The validator on its own: any text, validated and validated again.
InitV ==
    /\ Idle
    /\ slots = {} /\ max_len = 0
    /\ vtext \in TextsUpTo(MaxTextLen) /\ verdicts = <<>>

Validate ==
    /\ Len(verdicts) < 2
    /\ verdicts' = Append(verdicts, is_safe_select(vtext))
    /\ UNCHANGED <<openai_api_key, running, pc, sent, request, query, sql_query, engine, conn,
                   cursor, results, resp, validated, rejected, io, slots, max_len, vtext>>

NextV == Validate

SpecV == InitV /\ [][NextV]_vars

\* ------------------------------------------------------------------ claims
Busy == {h \in Slots : sent[h].endpoint # ""}
OnQueryEndpoint(h) == sent[h].endpoint \in {"/api/execute", "/api/generate"}
HasEvent(h, op, purpose, ok) ==
    \E i \in 1..Len(io[h]) : io[h][i].op = op /\ io[h][i].purpose = purpose /\ io[h][i].ok = ok
DatabaseEvents == {"connect", "execute", "fetch"}

\* C1: on /api/execute and /api/generate, the text handed to connection.execute
\* is a text is_safe_select accepted earlier in the same request; and once
\* is_safe_select has returned False the request is rejected, with no engine
\* created and no connection opened or attempted.
C1_ExecutedTextWasValidated ==
    \A h \in Slots : OnQueryEndpoint(h) =>
        /\ \A i \in 1..Len(io[h]) : io[h][i].op = "execute" => io[h][i].text \in validated[h]
        /\ rejected[h] =>
             /\ pc[h] = "done" /\ resp[h].status \in {400, 500}
             /\ engine[h] = FALSE /\ conn[h] = "none"
             /\ \A i \in 1..Len(io[h]) : io[h][i].op \notin DatabaseEvents

\* C1 witness: on /api/generate a statement was executed that is not the text
\* the generation step validated (the second clean-up changed it).
C1_Witness ==
    \E h \in Slots :
        /\ sent[h].endpoint = "/api/generate"
        /\ \E i \in 1..Len(io[h]) :
              /\ io[h][i].op = "execute" /\ io[h][i].ok
              /\ io[h][i].text # sql_query[h] /\ io[h][i].text \in validated[h]

\* C2 (as claimed): a text the validator accepts holds exactly one statement.
C2_AcceptedHoldsOneStatement ==
    \A i \in 1..Len(verdicts) : verdicts[i] => Len(parse(vtext)) = 1

\* C3: is_safe_select returns True exactly when every parsed statement of the
\* text has type SELECT, wherever a statement of another type sits, and gives
\* the same verdict each time it is asked about the same text.
C3_SafeIffEveryStatementSelect ==
    \A i \in 1..Len(verdicts) :
        verdicts[i] = (\A k \in 1..Len(parse(vtext)) : get_type(parse(vtext)[k]) = "SELECT")

\* C3 witness: a SELECT followed by a DELETE after a semicolon, rejected twice.
C3_Witness ==
    /\ vtext = <<"SELECT", ";", " ", "DELETE">>
    /\ verdicts = <<FALSE, FALSE>>

\* C4 (as claimed): a request that fails because the validator rejected the
\* text, or because the database rejected the statement, ends with status 400.
C4_RejectionsEndWith400 ==
    \A h \in Slots :
        (pc[h] = "done" /\ resp[h].detail \in {"unsafe_query", "unsafe_generated", "db_execute"})
            => resp[h].status = 400

\* C5 (as claimed): a request with an unsupported dbType is rejected before
\* any I/O: no provider call and no connection attempt.
C5_UnsupportedDialectBeforeIO ==
    \A h \in Busy : sent[h].dbType \notin {"postgresql", "mysql"} => io[h] = <<>>

\* C6: on /api/generate, a failed summary call leaves the request a success,
\* with sql_query and results in the response and the row-count message as
\* summary; and a request succeeds only if nothing else failed.
C6_OnlySummaryFailureAbsorbed ==
    \A h \in Slots : (sent[h].endpoint = "/api/generate" /\ pc[h] = "done") =>
        /\ HasEvent(h, "model_call", "summary", FALSE) =>
              /\ resp[h].status = 200
              /\ resp[h].query = sql_query[h] /\ sql_query[h] \in validated[h]
              /\ resp[h].results = results[h] /\ results[h] = cursor[h]
              /\ resp[h].summary = FoundResults(Len(results[h]))
        /\ resp[h].status = 200 =>
              /\ ~rejected[h]
              /\ sent[h].dbType \in {"postgresql", "mysql"}
              /\ \A i \in 1..Len(io[h]) : ~io[h][i].ok => io[h][i].purpose = "summary"
              /\ HasEvent(h, "model_call", "generate", TRUE)
              /\ \E i \in 1..Len(io[h]) : io[h][i].op = "fetch" /\ io[h][i].ok

\* C6 witness: the summary call failed and the request succeeded.
C6_Witness ==
    \E h \in Slots :
        /\ sent[h].endpoint = "/api/generate" /\ pc[h] = "done"
        /\ HasEvent(h, "model_call", "summary", FALSE)
        /\ resp[h].status = 200 /\ Len(resp[h].results) = 2

\* C7: on /api/generate, when the statement returned no rows the summary is
\* "No results found." and no summary call was made.
C7_EmptyResultNoSummaryCall ==
    \A h \in Slots :
        (/\ sent[h].endpoint = "/api/generate" /\ pc[h] = "done"
         /\ \E i \in 1..Len(io[h]) : io[h][i].op = "fetch" /\ io[h][i].ok /\ io[h][i].count = 0)
            => /\ resp[h].status = 200
               /\ resp[h].summary = NoResultsFound
               /\ \A i \in 1..Len(io[h]) : io[h][i].purpose # "summary"

\* C7 witness: a generated statement ran and returned no rows.
C7_Witness ==
    \E h \in Slots :
        /\ sent[h].endpoint = "/api/generate" /\ pc[h] = "done"
        /\ \E i \in 1..Len(io[h]) : io[h][i].op = "fetch" /\ io[h][i].ok /\ io[h][i].count = 0
        /\ resp[h].results = <<>> /\ resp[h].summary = NoResultsFound

\* C8: a connection is open only inside the with block, and none is open when
\* the outcome of the request exists, whatever the exit: return, a statement
\* the database rejects, or an exception while the rows are read; on
\* /api/generate it is closed before the summary is asked for.
C8_ConnectionReleased ==
    \A h \in Slots :
        /\ conn[h] = "open" => pc[h] \in {"schema_run", "schema_read", "exec_run", "exec_fetch"}
        /\ pc[h] \in {"done", "gen_summary", "gen_summary_call", "idle"} => conn[h] # "open"
        /\ ((\E i \in 1..Len(io[h]) : io[h][i].op = "connect" /\ io[h][i].ok)
               /\ pc[h] \in {"done", "gen_summary", "gen_summary_call"})
              => conn[h] = "closed"

\* C8 witness: an exception while the rows were read, and the connection closed.
C8_Witness ==
    \E h \in Slots :
        /\ pc[h] = "done" /\ resp[h].detail = "unexpected" /\ conn[h] = "closed"
        /\ \E i \in 1..Len(io[h]) : io[h][i].op = "fetch" /\ ~io[h][i].ok

\* C9 (as claimed): the question in the summary prompt is the question the
\* client sent in the query field.
C9_SummaryPromptHoldsOriginalQuestion ==
    \A h \in Slots :
        \A i \in 1..Len(io[h]) : io[h][i].purpose = "summary" => io[h][i].text = sent[h].query

\* C10 (as claimed): with requests of different apiKey handled concurrently,
\* every provider call, to generate or to summarise, with either provider,
\* is made with the apiKey of the request that makes it, and there is no
\* process-wide mutable credential state shared between requests: a request
\* being handled never finds a key of another request in the process.
C10_NoSharedCredentialState ==
    \A h \in Busy : sent[h].endpoint = "/api/generate" =>
        /\ \A i \in 1..Len(io[h]) :
              io[h][i].op = "model_call" => io[h][i].key = sent[h].apiKey
        /\ openai_api_key \in {"unset", sent[h].apiKey}

====
